---------------------------- MODULE Spec2Model ----------------------------
(***************************************************************************)
(* A model of the HPS interpreter core (src/hsp.py, class HPSInterpreter). *)
(*                                                                         *)
(* A line of text is a sequence of one-character strings; a character      *)
(* outside ASCII is written by its name or its code point.  The regular    *)
(* expressions of the handlers are operators over such sequences.  A       *)
(* Python float is an integer number of 1/One units (One stands for 1.0),  *)
(* exact for texts with at most four decimals; the sample of               *)
(* random.random() is a value of 0 .. One-1 in the same unit.  A handler   *)
(* is an operator from the interpreter state and the line to the state it  *)
(* leaves, the lines it appends and the exception it raises.               *)
(***************************************************************************)
EXTENDS Integers, Sequences, FiniteSets, TLC

VARIABLES
    variables,      \* self.variables   : name -> value
    pools,          \* self.pools       : name -> Pool
    currency,       \* self.currency    : name -> float
    inventory,      \* self.inventory   : sequence of item names
    pity_counter,   \* self.pity_counter
    total_spent,    \* self.total_spent
    output_lines,   \* self.output_lines, the list execute() returns
    line,           \* the argument of the execute() call that produced this state
    tr,             \* what the handler of that call did (locals of the handler)
    calls           \* the number of execute() calls so far

vars == <<variables, pools, currency, inventory, pity_counter, total_spent,
          output_lines, line, tr, calls>>

-----------------------------------------------------------------------------
(* Numbers                                                                 *)

\* 1.0 in the unit of the model's floats
One == 10000
\* the pity threshold of `if self.pity_counter > 70`
PityThreshold == 70
\* 0.02, the escalation per attempt above the threshold, in 1/One units
PityStep == 200
\* the price of one draw in `cost = draw * 160`
DrawCost == 160
\* the pity cap when the statement has no `*<integer>` token
DefaultMaxPity == 90
\* line[:30] and line[:40], the truncated echoes
LoopEcho == 30
UnknownEcho == 40

Min(a, b) == IF a < b THEN a ELSE b

MinOf(S) == CHOOSE j \in S : \A k \in S : j <= k
MaxOf(S) == CHOOSE j \in S : \A k \in S : j >= k
FirstOr(S, default) == IF S = {} THEN default ELSE MinOf(S)

-----------------------------------------------------------------------------
(* Characters and the character classes of the regular expressions         *)

Cent      == "cent"        \* U+00A2, the comment / output sigil
Yen       == "yen"         \* U+00A5, the currency symbol
Times     == "times"       \* U+00D7
Divide    == "divide"      \* U+00F7
PlusMinus == "plusminus"   \* U+00B1

Digits == {"0", "1", "2", "3", "4", "5", "6", "7", "8", "9"}

Letters == {"a", "b", "c", "d", "e", "f", "g", "h", "i", "j", "k", "l", "m",
            "n", "o", "p", "q", "r", "s", "t", "u", "v", "w", "x", "y", "z",
            "U+9000", "U+51FA"}

\* \w
WordChars == Digits \cup Letters \cup {"_"}
\* [\d.]
NumChars == Digits \cup {"."}
\* \s
SpaceChars == {" "}

IsDigit(c) == c \in Digits
IsWordChar(c) == c \in WordChars
IsNumChar(c) == c \in NumChars
IsSpace(c) == c \in SpaceChars

DigitVal(c) ==
    CASE c = "0" -> 0 [] c = "1" -> 1 [] c = "2" -> 2 [] c = "3" -> 3
      [] c = "4" -> 4 [] c = "5" -> 5 [] c = "6" -> 6 [] c = "7" -> 7
      [] c = "8" -> 8 [] c = "9" -> 9

StartsWith(s, prefix) ==
    Len(s) >= Len(prefix) /\ SubSeq(s, 1, Len(prefix)) = prefix

Contains(s, c) == \E i \in 1..Len(s) : s[i] = c

\* the index just past the longest run of characters of class cls from i on
RunEnd(s, i, cls) == FirstOr({j \in i..Len(s) : s[j] \notin cls}, Len(s) + 1)

StripTo(s, keep) ==
    IF keep = {} THEN <<>> ELSE SubSeq(s, MinOf(keep), MaxOf(keep))

\* str.strip()
Strip(s) == StripTo(s, {i \in 1..Len(s) : ~IsSpace(s[i])})

\* int(text) of a run of digits
RECURSIVE ParseInt(_)
ParseInt(s) ==
    IF s = <<>> THEN 0
    ELSE 10 * ParseInt(SubSeq(s, 1, Len(s) - 1)) + DigitVal(s[Len(s)])

\* the fraction digits of a float text, in 1/scale units
RECURSIVE ParseFrac(_, _)
ParseFrac(s, scale) ==
    IF s = <<>> THEN 0
    ELSE DigitVal(s[1]) * (scale \div 10) + ParseFrac(Tail(s), scale \div 10)

FloatMagnitude(body, dot) ==
    ParseInt(SubSeq(body, 1, dot - 1)) * One
      + ParseFrac(SubSeq(body, dot + 1, Len(body)), One)

FloatDigits(body, neg, dots) ==
    IF /\ body # <<>>
       /\ \A i \in 1..Len(body) : IsNumChar(body[i])
       /\ Cardinality(dots) <= 1
       /\ \E i \in 1..Len(body) : IsDigit(body[i])
    THEN [ok |-> TRUE,
          v  |-> (IF neg THEN -1 ELSE 1)
                   * FloatMagnitude(body, FirstOr(dots, Len(body) + 1))]
    ELSE [ok |-> FALSE, v |-> 0]

FloatSigned(s) ==
    IF s # <<>> /\ s[1] \in {"-", "+"}
    THEN FloatDigits(Tail(s), s[1] = "-", {i \in 1..(Len(s) - 1) : s[i + 1] = "."})
    ELSE FloatDigits(s, FALSE, {i \in 1..Len(s) : s[i] = "."})

\* float(text) for a text of digits, points, signs and other characters: an
\* optional sign, then digits with at most one point and at least one digit;
\* anything else raises ValueError (ok = FALSE).  Exponents, inf, nan and
\* underscores do not occur in the texts given.
ParseFloat(text) == FloatSigned(Strip(text))

-----------------------------------------------------------------------------
(* Regular expressions of the handlers                                     *)

NoMatch == [found |-> FALSE, group |-> <<>>]

\* the group of the leftmost match: the run of class cls that starts at `from`
GroupAt(s, from, cls) ==
    [found |-> TRUE, group |-> SubSeq(s, from, RunEnd(s, from, cls) - 1)]

\* re.search(sigil + '(cls+)', s): the first sigil followed by a character of
\* the class, and the longest run of the class after it
SigilMatch(s, at, cls) ==
    IF at = {} THEN NoMatch ELSE GroupAt(s, MinOf(at) + 1, cls)

SearchSigil(s, sigil, cls) ==
    SigilMatch(s, {i \in 1..(Len(s) - 1) : s[i] = sigil /\ s[i + 1] \in cls}, cls)

\* re.findall(r'\$(\w+)', s): every match, left to right
RECURSIVE FindAllItems(_)
ItemsCut(s, i, e) ==
    <<SubSeq(s, i + 1, e - 1)>> \o FindAllItems(SubSeq(s, e, Len(s)))

ItemsAt(s, at) ==
    IF at = {} THEN <<>>
    ELSE ItemsCut(s, MinOf(at), RunEnd(s, MinOf(at) + 1, WordChars))

FindAllItems(s) ==
    ItemsAt(s, {i \in 1..(Len(s) - 1) : s[i] = "$" /\ IsWordChar(s[i + 1])})

\* a run of [\d.] starts at i and a "/" follows it
NumberSlashAt(s, i) ==
    /\ i <= Len(s)
    /\ IsNumChar(s[i])
    /\ RunEnd(s, i, NumChars) <= Len(s)
    /\ s[RunEnd(s, i, NumChars)] = "/"

\* re.search(r'\(([\d.]+)/', s)
SearchPoolProb(s) ==
    SigilMatch(s, {i \in 1..Len(s) : s[i] = "(" /\ NumberSlashAt(s, i + 1)},
               NumChars)

ProbMatch(s, at) ==
    IF at = {} THEN NoMatch ELSE GroupAt(s, MinOf(at), NumChars)

\* re.search(r'([\d.]+)/', s)
SearchProb(s) == ProbMatch(s, {i \in 1..Len(s) : NumberSlashAt(s, i)})

NoAssign == [found |-> FALSE, name |-> <<>>, value |-> <<>>]

AssignValueAt(s, e, v) ==
    IF v <= Len(s)
    THEN [found |-> TRUE, name |-> SubSeq(s, 2, e - 1), value |-> SubSeq(s, v, Len(s))]
    ELSE NoAssign

AssignEqualsAt(s, e, eq) ==
    IF eq <= Len(s) /\ s[eq] = "="
    THEN AssignValueAt(s, e, RunEnd(s, eq + 1, SpaceChars))
    ELSE NoAssign

AssignNameEnd(s, e) == AssignEqualsAt(s, e, RunEnd(s, e, SpaceChars))

\* re.match(r'#(\w+)\s*=\s*(.+)', s) of a stripped line
MatchAssign(s) ==
    IF Len(s) >= 2 /\ s[1] = "#" /\ IsWordChar(s[2])
    THEN AssignNameEnd(s, RunEnd(s, 2, WordChars))
    ELSE NoAssign

\* "(" digits ")" starts at o
TimesAt(s, o) ==
    /\ o < Len(s)
    /\ s[o] = "("
    /\ IsDigit(s[o + 1])
    /\ RunEnd(s, o + 1, Digits) <= Len(s)
    /\ s[RunEnd(s, o + 1, Digits)] = ")"

TimesMatch(s, at) ==
    IF at = {} THEN NoMatch
    ELSE GroupAt(s, RunEnd(s, MinOf(at) + 1, SpaceChars) + 1, Digits)

\* re.search(r'<plus-minus>\s*\((\d+)\)', s)
SearchTimes(s) ==
    TimesMatch(s, {i \in 1..Len(s) :
                      s[i] = PlusMinus /\ TimesAt(s, RunEnd(s, i + 1, SpaceChars))})

-----------------------------------------------------------------------------
(* The literal text each output line starts with (up to its first field)   *)

HeadComment == <<"[", "U+6CE8", "]", " ">>
HeadReset == <<"[", "U+2713", "]", " ", "U+5DF2", "U+91CD", "U+7F6E", "U+6240", "U+6709", "U+6570", "U+636E">>
HeadLoop == <<"[", "U+5F85", "U+5B9E", "U+73B0", "]", " ">>
HeadBye == <<"[", "b", "y", "e", "]">>
HeadUnknown == <<"[", "?", "]", " ", "U+672A", "U+77E5", "U+8BED", "U+6CD5", ":", " ">>
HeadPool == <<"[", "U+6C60", "]", " ", "#">>
HeadVar == <<"[", "U+53D8", "]", " ", "#">>
HeadDraw == <<"[", "U+62BD", "]", " ", "U+76EE", "U+6807", ":", " ", "$">>
HeadTrace == <<" ", " ", " ", " ", " ", "U+7B2C">>
HeadSuccess == <<"[", "U+2713", "]", " ", "U+51FA", "U+8D27", "!", " ", "$">>
HeadGuarantee == <<"[", "!", "]", " ", "U+4FDD", "U+5E95", "U+89E6", "U+53D1", " ", "|", " ", "$">>
HeadOut == <<"[", "U+51FA", "]", " ">>
HeadCond == <<"[", "U+6761", "]", " ">>
HeadRecord == <<"[", "U+5F55", "]", " ", "U+5B9E", "U+9A8C">>
HeadRecordUsage == <<"[", "U+5F55", "]", " ", "U+683C", "U+5F0F", ":", " ", "#", Cent, "{", ".", ".", ".", "}", PlusMinus, "(", "U+6B21", "U+6570", ")">>
HeadError == <<"[", "!", "]", " ">>
HeadStateRule == [i \in 1..40 |-> "U+2500"]
HeadStateTitle == <<"U+1F4CA", " ", "U+5F53", "U+524D", "U+72B6", "U+6001", ":">>
HeadStatePools == <<" ", " ", "U+6C60", "U+5B50", ":", " ">>
HeadStateVars == <<" ", " ", "U+53D8", "U+91CF", ":", " ">>
HeadStateCurrency == <<" ", " ", "U+8D27", "U+5E01", ":", " ">>
HeadStateInventory == <<" ", " ", "U+5E93", "U+5B58", ":", " ">>
HeadStatePity == <<" ", " ", "U+4FDD", "U+5E95", ":", " ">>

\* One output line: the literal text it starts with and the fields formatted
\* into it (item: a name, num and val: numbers, text: echoed text, blk: the
\* sub-lines of a multi-line block).
OutLine(head, item, num, val, text) ==
    [head |-> head, item |-> item, num |-> num, val |-> val, text |-> text,
     blk |-> <<>>]

-----------------------------------------------------------------------------
(* Values and the interpreter state                                        *)

FloatValue(v) == [kind |-> "float", num |-> v, text |-> <<>>, rec |-> <<>>]
IntValue(n)   == [kind |-> "int", num |-> n, text |-> <<>>, rec |-> <<>>]
StrValue(t)   == [kind |-> "str", num |-> 0, text |-> t, rec |-> <<>>]
\* {'success': s, 'failure': f, 'total': t, 'rate': s / t * 100}
DictValue(s, f, t) == [kind |-> "dict", num |-> 0, text |-> <<>>, rec |-> <<s, f, t>>]

\* dataclass Pool
Pool(name, total_prob, items) ==
    [name |-> name, total_prob |-> total_prob, items |-> items]

\* d[k] = v
Put(d, k, v) == [x \in DOMAIN d \cup {k} |-> IF x = k THEN v ELSE d[x]]

EmptyDict == [x \in {} |-> 0]

\* HPSInterpreter.__init__
InitState ==
    [variables |-> EmptyDict, pools |-> EmptyDict, currency |-> EmptyDict,
     inventory |-> <<>>, pity_counter |-> 0, total_spent |-> 0]

\* The locals of a handler that the properties read: the rule that
\* dispatched the line, the attempts made, the successes sampled, whether the
\* else branch of the draw loop ran, the item drawn, the target, the pool,
\* the pity cap, the pity counter at the last attempt, the attempt of the
\* last success and the message of the exception raised.
NoTrace ==
    [draws |-> 0, hits |-> 0, fallback |-> FALSE, drawn |-> <<>>,
     target |-> <<>>, pool |-> <<>>, max_pity |-> 0, total_prob |-> 0,
     current_prob |-> 0, pity |-> 0, at |-> 0, rule |-> "", exc |-> ""]

\* What a handler leaves behind: the state, the lines it appended, the
\* message of the exception it raised ("" when it returned) and its locals.
Return(S, out) == [S |-> S, out |-> out, exc |-> "", tr |-> NoTrace]
Raise(S, out, msg) ==
    [S |-> S, out |-> out, exc |-> msg, tr |-> [NoTrace EXCEPT !.exc = msg]]

-----------------------------------------------------------------------------
(* _define_pool                                                            *)

\* line 149
PoolProb(v) == v \div 100

\* a variant that adds the items to those of an earlier definition
StorePoolMerges(S, pool_name, total_prob, items) ==
    Return([S EXCEPT !.pools =
              Put(@, pool_name,
                  Pool(pool_name, total_prob,
                       IF pool_name \in DOMAIN S.pools
                       THEN S.pools[pool_name].items \o items ELSE items))],
           <<OutLine(HeadPool, pool_name, Len(items), total_prob * 100, <<>>)>>)

\* lines 159-164
StorePool(S, pool_name, total_prob, items) ==
    Return([S EXCEPT !.pools = Put(@, pool_name, Pool(pool_name, total_prob, items))],
           <<OutLine(HeadPool, pool_name, Len(items), total_prob * 100, <<>>)>>)

\* lines 146-157
PoolParsed(S, prob_match, prob, items, name_match) ==
    IF ~prob_match.found THEN Raise(S, <<>>, "pool format")
    ELSE IF ~prob.ok THEN Raise(S, <<>>, "could not convert string to float")
    ELSE IF items = <<>> THEN Raise(S, <<>>, "pool needs an item")
    ELSE IF ~name_match.found THEN Raise(S, <<>>, "pool needs a name")
    ELSE StorePool(S, name_match.group, PoolProb(prob.v), items)

PoolProbParsed(S, ln, prob_match) ==
    PoolParsed(S, prob_match, ParseFloat(prob_match.group), FindAllItems(ln),
               SearchSigil(ln, "#", WordChars))

DefinePool(S, ln) == PoolProbParsed(S, ln, SearchPoolProb(ln))

-----------------------------------------------------------------------------
(* _eval_math and _assign_variable                                         *)

\* Lines 207-210 build the namespace {"random": random, "math": math, ...}
\* inside the try; the module never imports math (lines 11-17), so building it
\* raises NameError for every expr, the bare except at 211 catches it and the
\* function returns the int 0.  The substitutions of lines 197-203 only change
\* the local expr, which is then never evaluated.
EvalMath(S, expr) == IntValue(0)

\* line 184
Operators == {"+", "-", Times, Divide, "*", "/"}

\* a variant that echoes the name alone
EchoNameOnly(name, value_str) == <<OutLine(HeadVar, name, 0, 0, <<>>)>>

\* line 192
Echo(name, value_str) == <<OutLine(HeadVar, name, 0, 0, value_str)>>

\* line 176
AssignCurrency(S, name, value_str, money) ==
    IF money.ok
    THEN Return([S EXCEPT !.currency = Put(@, name, money.v)], Echo(name, value_str))
    ELSE Raise(S, <<>>, "could not convert string to float")

\* line 180
AssignProbValue(S, name, value_str, prob) ==
    IF prob.ok
    THEN Return([S EXCEPT !.variables = Put(@, name, FloatValue(prob.v \div 100))],
                Echo(name, value_str))
    ELSE Raise(S, <<>>, "could not convert string to float")

\* a variant that keeps the text when the pattern does not match
AssignProbKeepsText(S, name, value_str, prob_match) ==
    IF prob_match.found
    THEN AssignProbValue(S, name, value_str, ParseFloat(prob_match.group))
    ELSE Return([S EXCEPT !.variables = Put(@, name, StrValue(value_str))],
                Echo(name, value_str))

\* lines 178-180
AssignProb(S, name, value_str, prob_match) ==
    IF prob_match.found
    THEN AssignProbValue(S, name, value_str, ParseFloat(prob_match.group))
    ELSE Return(S, Echo(name, value_str))

\* lines 188-190
AssignPlain(S, name, value_str, plain) ==
    Return([S EXCEPT !.variables =
              Put(@, name, IF plain.ok THEN FloatValue(plain.v) ELSE StrValue(value_str))],
           Echo(name, value_str))

\* lines 175-192
AssignValue(S, name, value_str) ==
    IF value_str[1] = Yen
    THEN AssignCurrency(S, name, value_str, ParseFloat(Tail(value_str)))
    ELSE IF Contains(value_str, "/")
    THEN AssignProb(S, name, value_str, SearchProb(value_str))
    ELSE IF \E i \in 1..Len(value_str) : value_str[i] \in Operators
    THEN Return([S EXCEPT !.variables = Put(@, name, EvalMath(S, value_str))],
                Echo(name, value_str))
    ELSE AssignPlain(S, name, value_str, ParseFloat(value_str))

\* lines 168-173
AssignMatched(S, match) ==
    IF ~match.found THEN Raise(S, <<>>, "assignment format")
    ELSE AssignValue(S, match.name, Strip(match.value))

AssignVariable(S, ln) == AssignMatched(S, MatchAssign(ln))

-----------------------------------------------------------------------------
(* _execute_target                                                         *)

\* random.random() of attempt `draw`: the sample is the smallest value (0.0)
\* at attempt rnd.hit and the largest value below 1.0 at every other attempt.
RandomSample(rnd, draw) == IF draw = rnd.hit THEN 0 ELSE One - 1

\* random.choice(items)
RandomChoice(rnd, items) == items[((rnd.pick - 1) % Len(items)) + 1]

\* a variant that escalates from the first attempt on, with no threshold
CurrentProbEarly(total_prob, pity) == Min(One, total_prob + pity * PityStep)

\* a variant whose clamp stays below 1.0
CurrentProbBelowOne(total_prob, pity) ==
    IF pity > PityThreshold
    THEN Min(One - 1, total_prob + (pity - PityThreshold) * PityStep)
    ELSE total_prob

\* lines 235-238
CurrentProb(total_prob, pity) ==
    IF pity > PityThreshold
    THEN Min(One, total_prob + (pity - PityThreshold) * PityStep)
    ELSE total_prob

\* line 244
TraceShown(draw, drawn, target_item, max_pity) ==
    draw <= 3 \/ drawn = target_item \/ draw >= max_pity - 2

\* line 245
PityTag(pity) == IF pity > PityThreshold THEN pity ELSE 0

\* a variant that counts an attempt twice
NextPitySkips(pity) == pity + 2

\* line 234
NextPity(pity) == pity + 1

\* a variant that leaves the pity counter as it is
OnTargetKeepsPity(L, draw, target_item) ==
    [L EXCEPT !.total_spent = @ + draw * DrawCost,
              !.out = Append(@, OutLine(HeadSuccess, target_item, draw,
                                        draw * DrawCost, <<>>)),
              !.ctl = "return"]

\* lines 249-253: the drawn item is the target
OnTarget(L, draw, target_item) ==
    [L EXCEPT !.total_spent = @ + draw * DrawCost,
              !.out = Append(@, OutLine(HeadSuccess, target_item, draw,
                                        draw * DrawCost, <<>>)),
              !.pity_counter = 0,
              !.ctl = "return"]

\* a variant without the break
OnOtherContinues(L) == L

\* line 254: a success that is not the target
OnOther(L) == [L EXCEPT !.ctl = "break"]

\* lines 244-254
OnAppended(L, draw, drawn, target_item, max_pity) ==
    IF drawn = target_item THEN OnTarget(L, draw, target_item) ELSE OnOther(L)

\* lines 244-246
WithTrace(L, draw, drawn, target_item, max_pity) ==
    IF TraceShown(draw, drawn, target_item, max_pity)
    THEN [L EXCEPT !.out = Append(@, OutLine(HeadTrace, drawn, draw,
                                             PityTag(L.pity_counter), <<>>))]
    ELSE L

\* a variant that does not append the drawn item
OnSuccessDropsItem(L, draw, drawn, target_item, max_pity) ==
    OnAppended(WithTrace([L EXCEPT !.hits = @ + 1, !.drawn = drawn, !.at = draw],
                         draw, drawn, target_item, max_pity),
               draw, drawn, target_item, max_pity)

\* lines 241-254: the attempt sampled a success and drew `drawn`
OnSuccess(L, draw, drawn, target_item, max_pity) ==
    OnAppended(WithTrace([L EXCEPT !.inventory = Append(@, drawn),
                                   !.hits = @ + 1,
                                   !.drawn = drawn,
                                   !.at = draw],
                         draw, drawn, target_item, max_pity),
               draw, drawn, target_item, max_pity)

\* a variant that charges nothing for the guarantee
FallbackFree(L, target_item, max_pity) ==
    [L EXCEPT !.inventory = Append(@, target_item),
              !.out = Append(@, OutLine(HeadGuarantee, target_item, 0,
                                        max_pity * DrawCost, <<>>)),
              !.pity_counter = 0,
              !.fallback = TRUE]

\* lines 255-260: the else branch of the for loop
Fallback(L, target_item, max_pity) ==
    [L EXCEPT !.inventory = Append(@, target_item),
              !.total_spent = @ + max_pity * DrawCost,
              !.out = Append(@, OutLine(HeadGuarantee, target_item, 0,
                                        max_pity * DrawCost, <<>>)),
              !.pity_counter = 0,
              !.fallback = TRUE]

\* lines 240-254: attempt `draw`, its probability being current_prob
Sampled(L, draw, current_prob, pool, target_item, max_pity, rnd) ==
    IF RandomSample(rnd, draw) < current_prob
    THEN OnSuccess([L EXCEPT !.current_prob = current_prob], draw,
                   RandomChoice(rnd, pool.items), target_item, max_pity)
    ELSE [L EXCEPT !.current_prob = current_prob]

\* a variant that escalates by the attempt's index within the statement
AttemptByIndex(L, draw, pool, target_item, max_pity, rnd) ==
    Sampled(L, draw, CurrentProb(pool.total_prob, draw), pool,
            target_item, max_pity, rnd)

\* lines 234-254: attempt `draw`, the pity counter already incremented
Attempt(L, draw, pool, target_item, max_pity, rnd) ==
    Sampled(L, draw, CurrentProb(pool.total_prob, L.pity_counter), pool,
            target_item, max_pity, rnd)

\* lines 233-254: one pass of the loop body, the counter incremented first;
\* no pass is made once the loop has been left by return or break
Pass(L, draw, pool, target_item, max_pity, rnd) ==
    IF L.ctl # "loop" THEN L
    ELSE Attempt([L EXCEPT !.pity_counter = NextPity(@),
                           !.draws = draw,
                           !.pity = NextPity(@)],
                 draw, pool, target_item, max_pity, rnd)

\* line 233: the passes for draw = from, ..., to in this order, the range
\* split in two halves
RECURSIVE Passes(_, _, _, _, _, _, _)
Passes(L, from, to, pool, target_item, max_pity, rnd) ==
    IF from > to \/ L.ctl # "loop" THEN L
    ELSE IF from = to THEN Pass(L, from, pool, target_item, max_pity, rnd)
    ELSE Passes(Passes(L, from, (from + to) \div 2, pool, target_item, max_pity, rnd),
                (from + to) \div 2 + 1, to, pool, target_item, max_pity, rnd)

\* line 255: the else branch runs when the loop ended without return or break
LoopElse(L, target_item, max_pity) ==
    IF L.ctl = "loop" THEN Fallback(L, target_item, max_pity) ELSE L

\* lines 233-260: the for loop from attempt `draw` on, and its else branch
DrawLoop(L, draw, pool, target_item, max_pity, rnd) ==
    LoopElse(Passes(L, draw, max_pity, pool, target_item, max_pity, rnd),
             target_item, max_pity)

\* lines 227-228
PityCap(pity_match) ==
    IF pity_match.found THEN ParseInt(pity_match.group) ELSE DefaultMaxPity

MaxPityOf(ln) == PityCap(SearchSigil(ln, "*", Digits))

\* the loop's variables before the first attempt, the header line appended
LoopStart(S, target_item, max_pity) ==
    [inventory |-> S.inventory, pity_counter |-> S.pity_counter,
     total_spent |-> S.total_spent,
     out |-> <<OutLine(HeadDraw, target_item, max_pity, 0, <<>>)>>,
     ctl |-> "loop", draws |-> 0, hits |-> 0, fallback |-> FALSE,
     drawn |-> <<>>, current_prob |-> 0, pity |-> S.pity_counter, at |-> 0]

TargetDone(S, L, target_item, pool, max_pity) ==
    [S |-> [S EXCEPT !.inventory = L.inventory,
                     !.pity_counter = L.pity_counter,
                     !.total_spent = L.total_spent],
     out |-> L.out, exc |-> "",
     tr |-> [draws |-> L.draws, hits |-> L.hits, fallback |-> L.fallback,
             drawn |-> L.drawn, target |-> target_item, pool |-> pool.name,
             max_pity |-> max_pity, total_prob |-> pool.total_prob,
             current_prob |-> L.current_prob, pity |-> L.pity, at |-> L.at,
             rule |-> "", exc |-> ""]]

\* lines 225-260
TargetRun(S, target_item, pool, max_pity, rnd) ==
    TargetDone(S, DrawLoop(LoopStart(S, target_item, max_pity), 1, pool,
                           target_item, max_pity, rnd),
               target_item, pool, max_pity)

\* lines 217-228
TargetParsed(S, ln, item_match, pool_match, rnd) ==
    IF ~item_match.found THEN Raise(S, <<>>, "target format")
    ELSE IF ~pool_match.found \/ pool_match.group \notin DOMAIN S.pools
    THEN Raise(S, <<>>, "pool undefined")
    ELSE TargetRun(S, item_match.group, S.pools[pool_match.group], MaxPityOf(ln), rnd)

ExecuteTarget(S, ln, rnd) ==
    TargetParsed(S, ln, SearchSigil(ln, "$", WordChars),
                 SearchSigil(ln, "#", WordChars), rnd)

-----------------------------------------------------------------------------
(* Text of numbers.  Decimal texts are exact in the model's unit; the      *)
(* binary rounding noise of Python's float repr is outside the model.      *)

DigitChar(d) ==
    CASE d = 0 -> "0" [] d = 1 -> "1" [] d = 2 -> "2" [] d = 3 -> "3"
      [] d = 4 -> "4" [] d = 5 -> "5" [] d = 6 -> "6" [] d = 7 -> "7"
      [] d = 8 -> "8" [] d = 9 -> "9"

RECURSIVE NatText(_)
NatText(n) == IF n < 10 THEN <<DigitChar(n)>>
              ELSE NatText(n \div 10) \o <<DigitChar(n % 10)>>

\* str(n) of an int
IntText(n) == IF n < 0 THEN <<"-">> \o NatText(0 - n) ELSE NatText(n)

\* the fraction digits of f (in 1/scale units), trailing zeros dropped
RECURSIVE FracText(_, _)
FracText(f, scale) ==
    IF f = 0 \/ scale <= 1 THEN <<"0">>
    ELSE IF (f * 10) % scale = 0 THEN <<DigitChar((f * 10) \div scale)>>
    ELSE <<DigitChar((f * 10) \div scale)>> \o FracText((f * 10) % scale, scale)

\* str(x) of a float
FloatText(v) ==
    IF v < 0 THEN <<"-">> \o NatText((0 - v) \div One) \o <<".">> \o FracText((0 - v) % One, One)
    ELSE NatText(v \div One) \o <<".">> \o FracText(v % One, One)

\* hundredths, rounded half to even
Hundredths(q, r, h) == IF r > h \/ (r = h /\ q % 2 = 1) THEN q + 1 ELSE q

Fixed2(c) ==
    NatText(c \div 100) \o <<".", DigitChar((c % 100) \div 10), DigitChar(c % 10)>>

\* f"{x:.2f}" of a float x >= 1
Fixed2Text(v) ==
    Fixed2(Hundredths(v \div (One \div 100), v % (One \div 100), (One \div 100) \div 2))

Quoted(t) == <<"'">> \o t \o <<"'">>

\* str(list) of a list of names
RECURSIVE ListBody(_)
ListBody(xs) ==
    IF xs = <<>> THEN <<>>
    ELSE IF Len(xs) = 1 THEN Quoted(xs[1])
    ELSE Quoted(xs[1]) \o <<",", " ">> \o ListBody(Tail(xs))

ListText(xs) == <<"[">> \o ListBody(xs) \o <<"]">>

\* str(d) of the dict of a record block
DictText(rec) ==
    <<"{">> \o Quoted(<<"s", "u", "c", "c", "e", "s", "s">>) \o <<":", " ">> \o IntText(rec[1])
      \o <<",", " ">> \o Quoted(<<"f", "a", "i", "l", "u", "r", "e">>) \o <<":", " ">> \o IntText(rec[2])
      \o <<",", " ">> \o Quoted(<<"t", "o", "t", "a", "l">>) \o <<":", " ">> \o IntText(rec[3])
      \o <<",", " ">> \o Quoted(<<"r", "a", "t", "e">>) \o <<":", " ">>
      \o FloatText((rec[1] * 100 * One) \div rec[3]) \o <<"}">>

\* str(value) of a variable
ValueText(val) ==
    CASE val.kind = "int" -> IntText(val.num)
      [] val.kind = "str" -> val.text
      [] val.kind = "float" -> FloatText(val.num)
      [] val.kind = "dict" -> DictText(val.rec)

-----------------------------------------------------------------------------
(* _handle_output                                                          *)

\* str.replace(pat, rep)
RECURSIVE ReplaceAll(_, _, _)
ReplaceAll(s, pat, rep) ==
    IF Len(s) < Len(pat) THEN s
    ELSE IF SubSeq(s, 1, Len(pat)) = pat
    THEN rep \o ReplaceAll(SubSeq(s, Len(pat) + 1, Len(s)), pat, rep)
    ELSE <<s[1]>> \o ReplaceAll(Tail(s), pat, rep)

\* lines 270-275
ShowVariable(val) ==
    IF val.kind = "float"
    THEN IF val.num < One THEN FloatText(val.num * 100) \o <<"%">>
         ELSE Fixed2Text(val.num)
    ELSE ValueText(val)

\* replace_var, lines 267-278
ReplaceVar(S, var_name) ==
    IF var_name \in DOMAIN S.variables THEN ShowVariable(S.variables[var_name])
    ELSE IF var_name \in DOMAIN S.currency
    THEN <<Yen>> \o FloatText(S.currency[var_name])
    ELSE <<"[", "U+672A", "U+5B9A", "U+4E49", ":", "#">> \o var_name \o <<"]">>

\* re.sub(r'#(\w+)', replace_var, content)
RECURSIVE SubRefs(_, _)
SubRefTo(S, s, e) ==
    ReplaceVar(S, SubSeq(s, 2, e - 1)) \o SubRefs(S, SubSeq(s, e, Len(s)))

SubRefs(S, s) ==
    IF s = <<>> THEN <<>>
    ELSE IF s[1] = "#" /\ Len(s) >= 2 /\ IsWordChar(s[2])
    THEN SubRefTo(S, s, RunEnd(s, 2, WordChars))
    ELSE <<s[1]>> \o SubRefs(S, Tail(s))

\* line 296
ShowResult(result) ==
    IF result > 100 THEN <<Yen>> \o IntText(result) ELSE IntText(result)

IsDigits(t) == t # <<>> /\ \A i \in 1..Len(t) : IsDigit(t[i])

\* eval of "<lead> <sign> <rest>" with no names: evaluated here when rest is
\* an integer literal with an optional sign; any other rest given is a name
\* the empty namespace does not have, and the brace text stays as it is
EvalAdditive(whole, lead, sign, rest) ==
    IF IsDigits(rest)
    THEN ShowResult(IF sign = "-" THEN ParseInt(lead) - ParseInt(rest)
                    ELSE ParseInt(lead) + ParseInt(rest))
    ELSE IF rest # <<>> /\ rest[1] \in {"-", "+"} /\ IsDigits(Strip(Tail(rest)))
    THEN ShowResult(IF (sign = "-") # (rest[1] = "-")
                    THEN ParseInt(lead) - ParseInt(Strip(Tail(rest)))
                    ELSE ParseInt(lead) + ParseInt(Strip(Tail(rest))))
    ELSE whole

\* calc_expr, lines 288-298
CalcExpr(S, whole, lead, sign, rest) ==
    EvalAdditive(whole, lead, sign,
                 Strip(ReplaceAll(ReplaceAll(rest, <<"t", "o", "t", "a", "l", "_", "s", "p", "e", "n", "t">>,
                                             IntText(S.total_spent)),
                                  <<"i", "n", "v", "e", "n", "t", "o", "r", "y", ".", "l", "e", "n", "g", "t", "h">>,
                                  IntText(Len(S.inventory)))))

\* re.sub(r'\{(\d+\s*[-+]\s*[^}]+)\}', calc_expr, content)
RECURSIVE SubBraces(_, _)
BraceClosed(S, s, d, o, c) ==
    IF c > o + 1
    THEN CalcExpr(S, SubSeq(s, 1, c), SubSeq(s, 2, d - 1), s[o], SubSeq(s, o + 1, c - 1))
           \o SubBraces(S, SubSeq(s, c + 1, Len(s)))
    ELSE <<s[1]>> \o SubBraces(S, Tail(s))

BraceSign(S, s, d, o) ==
    IF d > 2 /\ o <= Len(s) /\ s[o] \in {"-", "+"}
    THEN BraceClosed(S, s, d, o, FirstOr({j \in (o + 1)..Len(s) : s[j] = "}"}, 0))
    ELSE <<s[1]>> \o SubBraces(S, Tail(s))

BraceDigits(S, s, d) == BraceSign(S, s, d, RunEnd(s, d, SpaceChars))

SubBraces(S, s) ==
    IF s = <<>> THEN <<>>
    ELSE IF s[1] = "{" THEN BraceDigits(S, s, RunEnd(s, 2, Digits))
    ELSE <<s[1]>> \o SubBraces(S, Tail(s))

\* lines 283-285
FixedTokens(S, c) ==
    ReplaceAll(ReplaceAll(ReplaceAll(c, <<"{", "i", "n", "v", "e", "n", "t", "o", "r", "y", "}">>,
                                     ListText(S.inventory)),
                          <<"{", "t", "o", "t", "a", "l", "_", "s", "p", "e", "n", "t", "}">>,
                          <<Yen>> \o IntText(S.total_spent)),
               <<"{", "p", "i", "t", "y", "}">>, IntText(S.pity_counter))

HandleOutput(S, ln) ==
    Return(S, <<OutLine(HeadOut, <<>>, 0, 0,
                        SubBraces(S, FixedTokens(S, SubRefs(S, SubSeq(ln, 3, Len(ln))))))>>)

-----------------------------------------------------------------------------
(* _handle_condition, _handle_record, get_state                            *)

HandleCondition(S, ln) == Return(S, <<OutLine(HeadCond, <<>>, 0, 0, ln)>>)

\* the trials of lines 315-317 with random.random() < 0.5
Successes(flips, times) == Cardinality({i \in 1..times : flips[i]})

\* lines 312-326
RecordRun(S, times, success) ==
    IF times = 0 THEN Raise(S, <<>>, "division by zero")
    ELSE Return([S EXCEPT !.variables =
                   Put(@, <<Cent>>, DictValue(success, times - success, times))],
                <<OutLine(HeadRecord, <<>>, times, success, <<>>)>>)

RecordMatched(S, times_match, rnd) ==
    IF ~times_match.found
    THEN Return(S, <<OutLine(HeadRecordUsage, <<>>, 0, 0, <<>>)>>)
    ELSE RecordRun(S, ParseInt(times_match.group),
                   Successes(rnd.flips, ParseInt(times_match.group)))

HandleRecord(S, ln, rnd) == RecordMatched(S, SearchTimes(ln), rnd)

\* One sub-line of the block: names are the keys listed (in the dict's
\* order, which the model does not keep), shown maps each key to the value
\* displayed for it.
SubLine(head, names, shown, items, num, val) ==
    [head |-> head, names |-> names, shown |-> shown, items |-> items,
     num |-> num, val |-> val]

\* lines 340-343
DisplayValue(v) ==
    IF v.kind = "float" /\ v.num < One
    THEN StrValue(FloatText(v.num * 100) \o <<"%">>)
    ELSE v

\* vars_display, lines 338-343
VarsDisplay(S) == [k \in DOMAIN S.variables |-> DisplayValue(S.variables[k])]

\* curr_display, line 346
CurrDisplay(S) ==
    [k \in DOMAIN S.currency |-> StrValue(<<Yen>> \o FloatText(S.currency[k]))]

\* lines 335-347: the sections shown only for a non-empty dict
StateSections(S) ==
    (IF DOMAIN S.pools # {}
     THEN <<SubLine(HeadStatePools, DOMAIN S.pools, EmptyDict, <<>>, 0, 0)>>
     ELSE <<>>)
    \o (IF DOMAIN S.variables # {}
        THEN <<SubLine(HeadStateVars, DOMAIN S.variables, VarsDisplay(S), <<>>, 0, 0)>>
        ELSE <<>>)
    \o (IF DOMAIN S.currency # {}
        THEN <<SubLine(HeadStateCurrency, DOMAIN S.currency, CurrDisplay(S), <<>>, 0, 0)>>
        ELSE <<>>)

StateBlock(S) ==
    <<SubLine(HeadStateRule, {}, EmptyDict, <<>>, 0, 0),
      SubLine(HeadStateTitle, {}, EmptyDict, <<>>, 0, 0)>>
    \o StateSections(S)
    \o <<SubLine(HeadStateInventory, {}, EmptyDict, S.inventory, 0, 0),
         SubLine(HeadStatePity, {}, EmptyDict, <<>>, S.pity_counter, S.total_spent),
         SubLine(HeadStateRule, {}, EmptyDict, <<>>, 0, 0)>>

\* get_state: one string of several lines
GetState(S) ==
    [head |-> HeadStateRule, item |-> <<>>, num |-> 0, val |-> 0, text |-> <<>>,
     blk |-> StateBlock(S)]

-----------------------------------------------------------------------------
(* _execute_line: the dispatcher                                           *)

CharsReset == <<"/", "r", "e", "s", "e", "t">>
CharsState == <<"/", "s", "t", "a", "t", "e">>
LoopKeywords == {<<"w", "h", "i", "l", "e">>, <<"f", "o", "r">>,
                 <<"u", "n", "t", "i", "l">>, <<Cent, ".">>}
ExitWords == {<<"e", "x", "i", "t">>, <<"q", "u", "i", "t">>, <<"U+9000", "U+51FA">>}

\* line 84
IsComment(ln) == StartsWith(ln, <<Cent>>) /\ ~StartsWith(ln, <<Cent, ",">>)
\* line 127
IsLoop(ln)    == \E kw \in LoopKeywords : StartsWith(ln, kw)

\* the first test of lines 84-141 that the stripped line passes
Rule(ln) ==
    IF IsComment(ln) THEN "comment"
    ELSE IF StartsWith(ln, <<"(">>) THEN "pool"
    ELSE IF StartsWith(ln, <<"#">>) /\ Contains(ln, "=") /\ ~StartsWith(ln, <<"#", Cent>>)
         THEN "assign"
    ELSE IF StartsWith(ln, <<"<">>) THEN "target"
    ELSE IF StartsWith(ln, <<Cent, ",">>) THEN "output"
    ELSE IF StartsWith(ln, <<"?">>) THEN "condition"
    ELSE IF ln = CharsReset THEN "reset"
    ELSE IF ln = CharsState THEN "state"
    ELSE IF IsLoop(ln) THEN "loop"
    ELSE IF StartsWith(ln, <<"#", Cent>>) THEN "record"
    ELSE IF ln \in ExitWords THEN "exit"
    ELSE "unknown"

CommentLine(S, comment) ==
    IF comment # <<>> THEN Return(S, <<OutLine(HeadComment, <<>>, 0, 0, comment)>>)
    ELSE Return(S, <<>>)

\* lines 85-88
HandleComment(S, ln) == CommentLine(S, Strip(Tail(ln)))

\* a variant that keeps the amount spent
ResetKeepsSpent(S) ==
    Return([InitState EXCEPT !.total_spent = S.total_spent],
           <<OutLine(HeadReset, <<>>, 0, 0, <<>>)>>)

\* lines 116-119; reset() is self.__init__()
HandleReset(S) == Return(InitState, <<OutLine(HeadReset, <<>>, 0, 0, <<>>)>>)

\* lines 122-124
HandleState(S) == Return(S, <<GetState(S)>>)

\* lines 127-129
HandleLoop(S, ln) ==
    Return(S, <<OutLine(HeadLoop, <<>>, 0, 0, SubSeq(ln, 1, Min(LoopEcho, Len(ln))))>>)

\* a variant in which leaving the session clears it
HandleExitResets(S) == Return(InitState, <<OutLine(HeadBye, <<>>, 0, 0, <<>>)>>)

\* lines 137-139
HandleExit(S) == Return(S, <<OutLine(HeadBye, <<>>, 0, 0, <<>>)>>)

\* line 141
HandleUnknown(S, ln) ==
    Return(S, <<OutLine(HeadUnknown, <<>>, 0, 0, SubSeq(ln, 1, Min(UnknownEcho, Len(ln))))>>)

Dispatch(S, ln, rnd, rule) ==
    CASE rule = "comment"   -> HandleComment(S, ln)
      [] rule = "pool"      -> DefinePool(S, ln)
      [] rule = "assign"    -> AssignVariable(S, ln)
      [] rule = "target"    -> ExecuteTarget(S, ln, rnd)
      [] rule = "output"    -> HandleOutput(S, ln)
      [] rule = "condition" -> HandleCondition(S, ln)
      [] rule = "reset"     -> HandleReset(S)
      [] rule = "state"     -> HandleState(S)
      [] rule = "loop"      -> HandleLoop(S, ln)
      [] rule = "record"    -> HandleRecord(S, ln, rnd)
      [] rule = "exit"      -> HandleExit(S)
      [] OTHER              -> HandleUnknown(S, ln)

\* the handler's result with the rule that chose the handler noted
DispatchRule(S, ln, rnd, rule) ==
    [Dispatch(S, ln, rnd, rule) EXCEPT !.tr.rule = rule]

\* _execute_line, lines 81-141
ExecuteLine(S, ln, rnd) == DispatchRule(S, ln, rnd, Rule(ln))

\* a variant that swallows the exception without a line
CatchSilently(R) == R

\* lines 59-62: an exception of the handler becomes one more line
Catch(R) ==
    IF R.exc # ""
    THEN [R EXCEPT !.out = Append(@, OutLine(HeadError, <<>>, 0, 0, <<R.exc>>))]
    ELSE R

\* lines 50-64, the line already stripped
ExecuteStripped(S, ln, rnd) ==
    IF ln = <<>> THEN Return(S, <<>>) ELSE Catch(ExecuteLine(S, ln, rnd))

\* execute, lines 48-64
Execute(S, raw, rnd) == ExecuteStripped(S, Strip(raw), rnd)

-----------------------------------------------------------------------------
(* The lines given to execute                                              *)

\* pool definitions: (100/:$a)#p   (0/:$a,$b)#z   (200/:$a,$a)#p   (:$a)#p   (5/:)#p   (5/:$a)   (1.2.3/:$a)#p   (0.6/:$a,$b)#q
PoolLines ==
    { <<"(", "1", "0", "0", "/", ":", "$", "a", ")", "#", "p">>,
      <<"(", "0", "/", ":", "$", "a", ",", "$", "b", ")", "#", "z">>,
      <<"(", "2", "0", "0", "/", ":", "$", "a", ",", "$", "a", ")", "#", "p">>,
      <<"(", ":", "$", "a", ")", "#", "p">>,
      <<"(", "5", "/", ":", ")", "#", "p">>,
      <<"(", "5", "/", ":", "$", "a", ")">>,
      <<"(", "1", ".", "2", ".", "3", "/", ":", "$", "a", ")", "#", "p">>,
      <<"(", "0", ".", "6", "/", ":", "$", "a", ",", "$", "b", ")", "#", "q">> }

\* assignments: #x = <Yen>64800   #x = <Yen>-5   #x = <Yen>abc   #y = 2+3   #y = 5   #y = abc   #y = 0.6/   #y = a/b   #y = 1.2.3/   #=5
AssignLines ==
    { <<"#", "x", " ", "=", " ", Yen, "6", "4", "8", "0", "0">>,
      <<"#", "x", " ", "=", " ", Yen, "-", "5">>,
      <<"#", "x", " ", "=", " ", Yen, "a", "b", "c">>,
      <<"#", "y", " ", "=", " ", "2", "+", "3">>,
      <<"#", "y", " ", "=", " ", "5">>,
      <<"#", "y", " ", "=", " ", "a", "b", "c">>,
      <<"#", "y", " ", "=", " ", "0", ".", "6", "/">>,
      <<"#", "y", " ", "=", " ", "a", "/", "b">>,
      <<"#", "y", " ", "=", " ", "1", ".", "2", ".", "3", "/">>,
      <<"#", "=", "5">> }

\* draw statements: <$a,#p,*90>   <$b,#p>   <$a,#z,*72>   <$c,#z,*2>   <#p>   <$a,#n>   <$a,#q,*85>   <$c,#z,*120>   <$c,#z,*0>
TargetLines ==
    { <<"<", "$", "a", ",", "#", "p", ",", "*", "9", "0", ">">>,
      <<"<", "$", "b", ",", "#", "p", ">">>,
      <<"<", "$", "a", ",", "#", "z", ",", "*", "7", "2", ">">>,
      <<"<", "$", "c", ",", "#", "z", ",", "*", "2", ">">>,
      <<"<", "#", "p", ">">>,
      <<"<", "$", "a", ",", "#", "n", ">">>,
      <<"<", "$", "a", ",", "#", "q", ",", "*", "8", "5", ">">>,
      <<"<", "$", "c", ",", "#", "z", ",", "*", "1", "2", "0", ">">>,
      <<"<", "$", "c", ",", "#", "z", ",", "*", "0", ">">> }

\* output statements: <Cent>,#x #y {pity}   <Cent>,{total_spent} {inventory} {64800 - total_spent}
OutputLines ==
    { <<Cent, ",", "#", "x", " ", "#", "y", " ", "{", "p", "i", "t", "y", "}">>,
      <<Cent, ",", "{", "t", "o", "t", "a", "l", "_", "s", "p", "e", "n", "t", "}", " ", "{", "i", "n", "v", "e", "n", "t", "o", "r", "y", "}", " ", "{", "6", "4", "8", "0", "0", " ", "-", " ", "t", "o", "t", "a", "l", "_", "s", "p", "e", "n", "t", "}">> }

\* record blocks: #<Cent>{x}<PlusMinus>(2)   #<Cent>{x}<PlusMinus>(0)   #<Cent>{x}
RecordLines ==
    { <<"#", Cent, "{", "x", "}", PlusMinus, "(", "2", ")">>,
      <<"#", Cent, "{", "x", "}", PlusMinus, "(", "0", ")">>,
      <<"#", Cent, "{", "x", "}">> }

\* comments, stubs, state query, exit, unknown and blank lines: <Cent> note   <Cent>   <Cent>.f   ?x   /state   while x   for x   until x   exit   <U+9000><U+51FA>   hello   <blank>
OtherLines ==
    { <<Cent, " ", "n", "o", "t", "e">>,
      <<Cent>>,
      <<Cent, ".", "f">>,
      <<"?", "x">>,
      <<"/", "s", "t", "a", "t", "e">>,
      <<"w", "h", "i", "l", "e", " ", "x">>,
      <<"f", "o", "r", " ", "x">>,
      <<"u", "n", "t", "i", "l", " ", "x">>,
      <<"e", "x", "i", "t">>,
      <<"U+9000", "U+51FA">>,
      <<"h", "e", "l", "l", "o">>,
      <<" ", " ">> }

\* the reset command: /reset    /reset 
ResetLines ==
    { <<"/", "r", "e", "s", "e", "t">>,
      <<" ", "/", "r", "e", "s", "e", "t", " ">> }

\* draw statements are given while the inventory is shorter than this
MaxInventory == 2
\* the number of execute() calls of a session
MaxCalls == 3

-----------------------------------------------------------------------------
(* The state machine: one execute() call per step                          *)

Self ==
    [variables |-> variables, pools |-> pools, currency |-> currency,
     inventory |-> inventory, pity_counter |-> pity_counter,
     total_spent |-> total_spent]

NoRandom == [hit |-> 0, pick |-> 1, flips |-> <<>>]

Init ==
    /\ variables = InitState.variables
    /\ pools = InitState.pools
    /\ currency = InitState.currency
    /\ inventory = InitState.inventory
    /\ pity_counter = InitState.pity_counter
    /\ total_spent = InitState.total_spent
    /\ output_lines = <<>>
    /\ line = <<>>
    /\ tr = NoTrace
    /\ calls = 0

\* self.execute(ln) with the random source behaving as rnd
Call(ln, rnd) ==
    \E R \in {Execute(Self, ln, rnd)} :
        /\ calls' = calls + 1
        /\ variables' = R.S.variables
        /\ pools' = R.S.pools
        /\ currency' = R.S.currency
        /\ inventory' = R.S.inventory
        /\ pity_counter' = R.S.pity_counter
        /\ total_spent' = R.S.total_spent
        /\ output_lines' = R.out
        /\ line' = ln
        /\ tr' = R.tr

\* the pool a draw statement names, when it is declared
PoolNamed(pool_match) ==
    IF pool_match.found /\ pool_match.group \in DOMAIN pools
    THEN <<pools[pool_match.group]>>
    ELSE <<>>

NamedPool(ln) == PoolNamed(SearchSigil(Strip(ln), "#", WordChars))

\* the items random.choice can return for the pool a draw statement names
Picks(named) ==
    IF named = <<>> THEN {1} ELSE 1..Len(named[1].items)

\* the values of the pity counter at which the scripted random source may
\* give its low sample after the first attempt of a statement: the first two
\* escalated attempts, the attempt of the documented example and the first
\* attempt whose escalated probability reaches 1.0 for a base below 0.02
HitCounters == {71, 72, 85, 120}

\* The attempts at which the one low sample of the random source falls:
\* max_pity + 1 stands for no low sample at all; a low sample at an attempt
\* whose probability is 0, or after an attempt whose probability is 1, gives
\* the run of another choice; of the others, the first attempt and those
\* that bring the pity counter to one of HitCounters are kept.
Hits(named, max_pity) ==
    IF named = <<>> THEN {1}
    ELSE {h \in 1..(max_pity + 1) :
            \/ h = max_pity + 1
            \/ /\ CurrentProb(named[1].total_prob, pity_counter + h) > 0
               /\ \/ h = 1
                  \/ /\ pity_counter + h \in HitCounters
                     /\ CurrentProb(named[1].total_prob, pity_counter + h - 1) < One}

\* the number of trials a record block asks for
TrialsOf(times_match) ==
    IF times_match.found THEN ParseInt(times_match.group) ELSE 0

Trials(ln) == TrialsOf(SearchTimes(Strip(ln)))

DrawWith(ln, named, max_pity) ==
    \E hit \in Hits(named, max_pity), pick \in Picks(named) :
        Call(ln, [hit |-> hit, pick |-> pick, flips |-> <<>>])

\* the session goes on while it has made fewer than MaxCalls calls
PoolStmt ==
    /\ calls < MaxCalls
    /\ \E ln \in PoolLines : Call(ln, NoRandom)
AssignStmt ==
    /\ calls < MaxCalls
    /\ \E ln \in AssignLines : Call(ln, NoRandom)
TargetStmt ==
    /\ calls < MaxCalls
    /\ Len(inventory) < MaxInventory
    /\ \E ln \in TargetLines : DrawWith(ln, NamedPool(ln), MaxPityOf(Strip(ln)))
OutputStmt ==
    /\ calls < MaxCalls
    /\ \E ln \in OutputLines : Call(ln, NoRandom)
RecordStmt ==
    /\ calls < MaxCalls
    /\ \E ln \in RecordLines :
          \E flips \in [1..Trials(ln) -> BOOLEAN] :
             Call(ln, [hit |-> 0, pick |-> 1, flips |-> flips])
OtherStmt ==
    /\ calls < MaxCalls
    /\ \E ln \in OtherLines : Call(ln, NoRandom)
ResetStmt ==
    /\ calls < MaxCalls
    /\ \E ln \in ResetLines : Call(ln, NoRandom)

Next ==
    \/ PoolStmt
    \/ AssignStmt
    \/ TargetStmt
    \/ OutputStmt
    \/ RecordStmt
    \/ OtherStmt
    \/ ResetStmt

Spec == Init /\ [][Next]_vars

-----------------------------------------------------------------------------
(* Properties.  In an action formula the unprimed variables are the state  *)
(* an execute() call starts in, and line', tr' and output_lines' are the    *)
(* line it was given, the locals of its handler and the lines it returned. *)

\* the interpreter's state, without the lines returned
state == <<variables, pools, currency, inventory, pity_counter, total_spent>>

\* the call that led to this state ran the draw loop
DrawRan(t) == t.rule = "target" /\ t.exc = ""

\* the draw statement ended on a sampled success of the target
GotTarget(t) == DrawRan(t) /\ t.hits = 1 /\ t.drawn = t.target

\* the draw statement ended on a sampled success of another item
GotOther(t) == DrawRan(t) /\ t.hits = 1 /\ t.drawn # t.target

\* some line of out starts with one of heads
HasHead(out, heads) == \E i \in 1..Len(out) : out[i].head \in heads

\* C1 as stated: a draw statement against a pool whose total_prob is 0
\* samples no success, makes all max_pity attempts and ends by the fallback
\* guarantee (target appended, max_pity * 160 spent, pity counter 0), whatever
\* max_pity and the state it starts in.
C1_AnyCap ==
    [][(DrawRan(tr') /\ tr'.total_prob = 0)
         => /\ tr'.hits = 0
            /\ tr'.draws = tr'.max_pity
            /\ tr'.fallback
            /\ inventory' = Append(inventory, tr'.target)
            /\ total_spent' = total_spent + tr'.max_pity * 160
            /\ pity_counter' = 0]_vars

\* C1 amended: the same holds of every draw statement against a pool whose
\* total_prob is 0 that starts with pity counter + max_pity <= 70, so that
\* no attempt is made above the escalation threshold.
C1_BelowThreshold ==
    [][(DrawRan(tr') /\ tr'.total_prob = 0 /\ pity_counter + tr'.max_pity <= 70)
         => /\ tr'.hits = 0
            /\ tr'.draws = tr'.max_pity
            /\ tr'.fallback
            /\ inventory' = Append(inventory, tr'.target)
            /\ total_spent' = total_spent + tr'.max_pity * 160
            /\ pity_counter' = 0]_vars

\* a draw statement of two attempts against a pool of probability 0 has ended
\* by the guarantee
C1_Witness ==
    /\ DrawRan(tr)
    /\ tr.total_prob = 0
    /\ tr.max_pity = 2
    /\ tr.draws = 2
    /\ tr.fallback
    /\ inventory # <<>>
    /\ inventory[Len(inventory)] = tr.target
    /\ total_spent >= 320

\* C2: a draw statement with max_pity 90 against a pool of total_prob 1.0
\* whose only item is the target succeeds at its first attempt from any
\* state: the target is drawn, 160 is spent, one item is appended, there is
\* no second attempt and the pity counter ends at 0.
C2_FirstAttempt ==
    [][(/\ DrawRan(tr')
        /\ tr'.max_pity = 90
        /\ tr'.total_prob = One
        /\ pools[tr'.pool].items = <<tr'.target>>)
         => /\ tr'.draws = 1
            /\ tr'.at = 1
            /\ tr'.hits = 1
            /\ tr'.drawn = tr'.target
            /\ ~tr'.fallback
            /\ total_spent' = total_spent + 160
            /\ inventory' = Append(inventory, tr'.target)
            /\ pity_counter' = 0]_vars

\* such a statement has run from a pity counter that was not 0
C2_Witness ==
    /\ GotTarget(tr)
    /\ tr.max_pity = 90
    /\ tr.total_prob = One
    /\ pools[tr.pool].items = <<tr.target>>
    /\ tr.pity > tr.draws
    /\ pity_counter = 0

\* C3: every draw attempt adds 1 to the pity counter; the counter is 0 after
\* a draw statement exactly when the target was drawn or the guarantee fired,
\* and otherwise (a success of another item) it is the value before the
\* statement plus the attempts made; a reset sets it to 0 and no other
\* statement changes it.
C3_PityCounter ==
    [][IF DrawRan(tr')
       THEN /\ tr'.pity = pity_counter + tr'.draws
            /\ IF tr'.fallback \/ GotTarget(tr')
               THEN pity_counter' = 0
               ELSE /\ GotOther(tr')
                    /\ tr'.draws >= 1
                    /\ pity_counter' = pity_counter + tr'.draws
       ELSE IF tr'.rule = "reset"
       THEN pity_counter' = 0
       ELSE pity_counter' = pity_counter]_vars

\* a draw statement that started from a pity counter above 0 has ended on a
\* success of another item
C3_Witness ==
    /\ GotOther(tr)
    /\ tr.pity > tr.draws
    /\ pity_counter = tr.pity

\* C4: a draw statement in which an attempt draws an item other than the
\* target ends at that attempt, without the fallback branch, without a
\* success or guarantee line and without spending; the fallback branch runs
\* only after max_pity attempts without a success.
C4_BreakSkipsFallback ==
    [][DrawRan(tr')
         => /\ GotOther(tr')
                 => /\ tr'.draws = tr'.at
                    /\ ~tr'.fallback
                    /\ ~HasHead(output_lines', {HeadSuccess, HeadGuarantee})
                    /\ total_spent' = total_spent
            /\ tr'.fallback
                 => /\ tr'.hits = 0
                    /\ tr'.draws = tr'.max_pity
                    /\ HasHead(output_lines', {HeadGuarantee})]_vars

\* a draw statement has ended on a success of another item before its last
\* attempt
C4_Witness ==
    /\ GotOther(tr)
    /\ tr.draws < tr.max_pity
    /\ ~tr.fallback
    /\ inventory # <<>>
    /\ inventory[Len(inventory)] = tr.drawn

\* C5: total spent is never negative; a draw statement that draws the target
\* at attempt d adds d * 160, one that ends by the guarantee adds
\* max_pity * 160, and every other statement but a reset leaves it as it is.
C5_TotalSpent ==
    [][/\ total_spent' >= 0
       /\ tr'.rule # "reset"
            => /\ total_spent' >= total_spent
               /\ total_spent' - total_spent =
                    IF GotTarget(tr') THEN tr'.at * 160
                    ELSE IF DrawRan(tr') /\ tr'.fallback THEN tr'.max_pity * 160
                    ELSE 0]_vars

\* the target has been drawn at an attempt after the first
C5_Witness ==
    /\ GotTarget(tr)
    /\ tr.at > 1
    /\ total_spent >= tr.at * 160

\* C6: but for a reset, the inventory after a statement is the inventory
\* before it, with exactly one item appended by a draw statement that raised
\* no error (the item of its one success, or the target when the guarantee
\* fired) and nothing appended by any other statement.
C6_InventoryAppendOnly ==
    [][tr'.rule # "reset"
         => IF DrawRan(tr')
            THEN /\ tr'.fallback # (tr'.hits = 1)
                 /\ tr'.hits <= 1
                 /\ inventory' = Append(inventory, IF tr'.fallback THEN tr'.target
                                                   ELSE tr'.drawn)
            ELSE inventory' = inventory]_vars

\* the guarantee has appended the target after an earlier item
C6_Witness ==
    /\ DrawRan(tr)
    /\ tr.fallback
    /\ Len(inventory) = 2
    /\ inventory[2] = tr.target
    /\ inventory[1] # tr.target

\* C7: when the handler of a statement raises, execute returns exactly one
\* line, the error diagnostic, and pools, variables, currency, inventory, pity
\* counter and total spent are as before the call.
C7_ErrorsLeaveState ==
    [][tr'.exc # ""
         => /\ Len(output_lines') = 1
            /\ output_lines'[1].head = HeadError
            /\ output_lines'[1].text = <<tr'.exc>>
            /\ UNCHANGED state]_vars

\* a draw statement naming an undeclared pool has failed in a state with a
\* pool, an item and an amount spent
C7_Witness ==
    /\ tr.rule = "target"
    /\ tr.exc = "pool undefined"
    /\ DOMAIN pools # {}
    /\ inventory # <<>>
    /\ total_spent > 0
    /\ Len(output_lines) = 1

\* C8 as stated: a line that begins with while, for, until or cent-dot is
\* dispatched to the loop stub, which returns one notice with the first 30
\* characters of the line and changes no state.
C8_LoopKeywords ==
    [][(\E kw \in LoopKeywords : StartsWith(Strip(line'), kw))
         => /\ tr'.rule = "loop"
            /\ Len(output_lines') = 1
            /\ output_lines'[1].head = HeadLoop
            /\ output_lines'[1].text =
                 SubSeq(Strip(line'), 1, Min(30, Len(Strip(line'))))
            /\ UNCHANGED state]_vars

\* the lines a /state shows for the state after construction
EmptyStateShown ==
    <<SubLine(HeadStateRule, {}, EmptyDict, <<>>, 0, 0),
      SubLine(HeadStateTitle, {}, EmptyDict, <<>>, 0, 0),
      SubLine(HeadStateInventory, {}, EmptyDict, <<>>, 0, 0),
      SubLine(HeadStatePity, {}, EmptyDict, <<>>, 0, 0),
      SubLine(HeadStateRule, {}, EmptyDict, <<>>, 0, 0)>>

\* C9: /reset leaves no pool, variable, currency or item and sets the pity
\* counter and total spent to 0, from any state; a /state right after it
\* shows no pools, variables or currency section, an empty inventory, pity
\* counter 0 and total spent 0.
C9_Reset ==
    [][/\ Strip(line') = CharsReset
            => /\ DOMAIN pools' = {}
               /\ DOMAIN variables' = {}
               /\ DOMAIN currency' = {}
               /\ inventory' = <<>>
               /\ pity_counter' = 0
               /\ total_spent' = 0
       /\ (Strip(line) = CharsReset /\ Strip(line') = CharsState)
            => /\ Len(output_lines') = 1
               /\ output_lines'[1].blk = EmptyStateShown
               /\ UNCHANGED state]_vars

\* a /reset made as the last call of a session has left the state of a new
\* interpreter and returned its one notice
C9_Witness ==
    /\ tr.rule = "reset"
    /\ calls = MaxCalls
    /\ Len(output_lines) = 1
    /\ output_lines[1].head = HeadReset
    /\ DOMAIN pools = {}
    /\ inventory = <<>>
    /\ pity_counter = 0
    /\ total_spent = 0

\* the value text is <digits>+<digits>
IsSum(v) ==
    \E i \in 2..(Len(v) - 1) :
       v[i] = "+" /\ IsDigits(SubSeq(v, 1, i - 1)) /\ IsDigits(SubSeq(v, i + 1, Len(v)))

\* the arithmetic value of such a text
SumOf(v) ==
    ParseInt(SubSeq(v, 1, FirstOr({i \in 1..Len(v) : v[i] = "+"}, 1) - 1))
      + ParseInt(SubSeq(v, FirstOr({i \in 1..Len(v) : v[i] = "+"}, 1) + 1, Len(v)))

\* the name and the stored value fit the sum the assignment states
StoresSum(match, stored) ==
    (match.found /\ IsSum(Strip(match.value)))
      => /\ match.name \in DOMAIN stored
         /\ stored[match.name].kind \in {"int", "float"}
         /\ stored[match.name].num =
              IF stored[match.name].kind = "int" THEN SumOf(Strip(match.value))
              ELSE SumOf(Strip(match.value)) * One

\* C10 as stated: an assignment whose value text is a well-formed arithmetic
\* expression (here a sum of two integer literals) stores the arithmetic
\* value of the expression under the assigned name.
C10_StoresValue ==
    [][tr'.rule = "assign" => StoresSum(MatchAssign(Strip(line')), variables')]_vars


\* the index of the first "=" of a line that has one
EqualsAt(ln) == FirstOr({i \in 1..Len(ln) : ln[i] = "="}, 0)

\* the text between the leading # and the first "=" of an assignment line
LeftHandSide(ln) == Strip(SubSeq(ln, 2, EqualsAt(ln) - 1))

\* the text after the first "=" of an assignment line
RightHandSide(ln) == Strip(SubSeq(ln, EqualsAt(ln) + 1, Len(ln)))

\* the one line returned is the echo of the assignment the line states
EchoReturned(ln, out) ==
    /\ Len(out) = 1
    /\ out[1].head = HeadVar
    /\ out[1].item = LeftHandSide(ln)
    /\ out[1].text = RightHandSide(ln)
    /\ RightHandSide(ln) # <<>>

\* C11 as stated: every line dispatched to the assignment handler returns the
\* echo line with the name and the right-hand-side text as written, whether
\* or not the value could be parsed.
C11_AlwaysEcho ==
    [][tr'.rule = "assign" => EchoReturned(Strip(line'), output_lines')]_vars

\* C11 amended: every line dispatched to the assignment handler whose handler
\* raises no error returns exactly the echo line with the name and the
\* right-hand-side text as written, whichever branch read the value; a line
\* whose handler raises returns the error line instead of the echo.
C11_EchoUnlessError ==
    [][tr'.rule = "assign"
         => IF tr'.exc = ""
            THEN EchoReturned(Strip(line'), output_lines')
            ELSE /\ Len(output_lines') = 1
                 /\ output_lines'[1].head = HeadError]_vars

\* an assignment whose value is no number has stored the text and echoed it
C11_Witness ==
    /\ tr.rule = "assign"
    /\ tr.exc = ""
    /\ EchoReturned(Strip(line), output_lines)
    /\ LeftHandSide(Strip(line)) \in DOMAIN variables
    /\ variables[LeftHandSide(Strip(line))].kind = "str"
    /\ variables[LeftHandSide(Strip(line))].text = RightHandSide(Strip(line))

\* the line is an assignment whose value text has no leading yen sign and
\* holds a slash
IsSlashAssign(t, ln) ==
    /\ t.rule = "assign"
    /\ MatchAssign(ln).found
    /\ RightHandSide(ln)[1] # Yen
    /\ Contains(RightHandSide(ln), "/")

\* name is set to the float v / 100 and nothing else of the map changes
SetToHundredth(name, v, before, after) ==
    /\ DOMAIN after = DOMAIN before \cup {name}
    /\ after[name].kind = "float"
    /\ after[name].num * 100 = v
    /\ \A k \in DOMAIN before \ {name} : after[k] = before[k]

DollarTokens(ln) ==
    Cardinality({i \in 1..(Len(ln) - 1) : ln[i] = "$" /\ ln[i + 1] \in WordChars})

\* the pool under name is the one the line ln defines, and the other pools
\* are those of before
DefinedBy(ln, name, before, after) ==
    /\ DOMAIN after = DOMAIN before \cup {name}
    /\ after[name].name = name
    /\ after[name].total_prob * 100 = ParseFloat(SearchPoolProb(ln).group).v
    /\ after[name].items = FindAllItems(ln)
    /\ Len(after[name].items) = DollarTokens(ln)
    /\ \A k \in DOMAIN before \ {name} : after[k] = before[k]

\* C13: a pool definition that raises no error stores under its name exactly
\* the probability and the items of that line, in order and with duplicates,
\* whatever was stored under the name before, leaves the other pools as they
\* are and reports the number of $ tokens of the line; no other statement
\* but a reset changes a pool, so the pool under a name is that of the most
\* recent successful definition.
C13_LatestDefinition ==
    [][IF tr'.rule = "pool" /\ tr'.exc = ""
       THEN \A ln \in {Strip(line')} :
              /\ DefinedBy(ln, SearchSigil(ln, "#", WordChars).group, pools, pools')
              /\ Len(output_lines') = 1
              /\ output_lines'[1].head = HeadPool
              /\ output_lines'[1].num = DollarTokens(ln)
       ELSE tr'.rule # "reset" => pools' = pools]_vars

\* a definition with the same item twice has stored both and reported two,
\* in a session whose only pool was defined and drawn from before
C13_Witness ==
    /\ tr.rule = "pool"
    /\ tr.exc = ""
    /\ Cardinality(DOMAIN pools) = 1
    /\ inventory # <<>>
    /\ DollarTokens(Strip(line)) = 2
    /\ \E n \in DOMAIN pools :
          /\ pools[n].items = FindAllItems(Strip(line))
          /\ pools[n].items[1] = pools[n].items[2]
    /\ output_lines[1].num = 2

\* C14 as stated: every stored pool has total_prob in the range [0, 1].
C14_ProbInRange ==
    \A n \in DOMAIN pools : pools[n].total_prob >= 0 /\ pools[n].total_prob <= One

\* the line is an assignment that matches the grammar and raised no error
Assigned(t, ln) == t.rule = "assign" /\ t.exc = "" /\ MatchAssign(ln).found

\* C15 as stated: every entry of the currency map is non-negative; an
\* assignment with a leading yen sign does not write the variable map, and
\* any other assignment does not write the currency map.
C15_CurrencyNonNegative ==
    [][/\ \A k \in DOMAIN currency' : currency'[k] >= 0
       /\ Assigned(tr', Strip(line'))
            => IF RightHandSide(Strip(line'))[1] = Yen
               THEN variables' = variables
               ELSE currency' = currency]_vars

\* the part of C15 about the two maps alone
C15_MapsApart ==
    [][Assigned(tr', Strip(line'))
         => IF RightHandSide(Strip(line'))[1] = Yen
            THEN variables' = variables
            ELSE currency' = currency]_vars

\* the statement kinds that only report
FrameRules == {"comment", "condition", "loop", "exit", "unknown", "state", "output"}

\* C16: a comment, condition, loop or function stub, exit, unknown-syntax,
\* /state or output statement leaves pools, variables, currency, inventory,
\* pity counter and total spent as they were, whatever the line and the
\* state it is executed in.
C16_ReportOnly ==
    [][tr'.rule \in FrameRules => state' = state]_vars

\* an output statement that reads the inventory and the amount spent has
\* run after a draw, and returned its line
C16_Witness ==
    /\ tr.rule = "output"
    /\ Contains(line, "{")
    /\ inventory # <<>>
    /\ total_spent > 0
    /\ DOMAIN pools # {}
    /\ Len(output_lines) = 1
    /\ output_lines[1].head = HeadOut

\* the characters a returned line starts with
LineStart(l) == l.head \o l.text

\* the line begins with a bracketed tag of one to three characters
\* (the longest tags the program writes are [bye] and the three-character
\* tag of the loop stub)
Tagged(l) ==
    /\ Len(LineStart(l)) >= 3
    /\ LineStart(l)[1] = "["
    /\ \E j \in 3..Min(5, Len(LineStart(l))) :
          /\ LineStart(l)[j] = "]"
          /\ \A k \in 2..(j - 1) : LineStart(l)[k] \notin {"[", "]"}

\* the line added for an exception begins with the tag [!]
ErrorTagged(t, out) ==
    t.exc # "" => /\ out # <<>>
                  /\ SubSeq(LineStart(out[Len(out)]), 1, 3) = <<"[", "!", "]">>

\* C17 as stated: every line returned by execute begins with a short
\* bracketed tag, whatever the statement (pool summary, assignment echo, draw
\* header, per-draw trace line, success line, guarantee line, output line,
\* state block, error), and the line of an error begins with [!].
C17_TaggedLines ==
    /\ \A i \in 1..Len(output_lines) : Tagged(output_lines[i])
    /\ ErrorTagged(tr, output_lines)

\* the part of C17 that the program keeps: every returned line but the
\* per-draw trace lines and the state block begins with a bracketed tag, and
\* the line of an error begins with [!]
C17_TaggedElsewhere ==
    /\ \A i \in 1..Len(output_lines) :
          IF output_lines[i].head \in {HeadTrace, HeadStateRule}
          THEN ~Tagged(output_lines[i])
          ELSE Tagged(output_lines[i])
    /\ ErrorTagged(tr, output_lines)

\* the probability the claim gives for an attempt made with the pity
\* counter, already incremented, at `counter`
Escalated(total_prob, counter) ==
    IF counter <= 70
    THEN total_prob
    ELSE Min(One, total_prob + (counter - 70) * 200)

\* C18: the last attempt of every draw statement is made with the pity
\* counter at its value before the statement plus the number of attempts
\* made, and with the success probability total_prob when that counter is at
\* most 70 and min(1.0, total_prob + (counter - 70) * 0.02) when it exceeds
\* 70; that is total_prob + 0.02 (clamped) at counter 71, and 0.306 at
\* counter 85 for total_prob 0.006.  Over the runs of the scripted random
\* source the last attempt is every attempt a statement can end at.
C18_Escalation ==
    [][(DrawRan(tr') /\ tr'.draws >= 1)
         => /\ tr'.pity = pity_counter + tr'.draws
            /\ tr'.current_prob = Escalated(tr'.total_prob, tr'.pity)
            /\ tr'.pity = 71 => tr'.current_prob = Min(One, tr'.total_prob + 200)
            /\ (tr'.pity = 85 /\ tr'.total_prob = 60) => tr'.current_prob = 3060]_vars

\* a draw statement on a pool of total_prob 0.006 that started with the
\* pity counter above 0 has sampled its success at counter 85, at an attempt
\* whose index is not 85, with probability 0.306
C18_Witness ==
    /\ DrawRan(tr)
    /\ tr.total_prob = 60
    /\ tr.pity = 85
    /\ tr.draws < 85
    /\ tr.hits = 1
    /\ tr.current_prob = 3060

\* the record block of n trials has stored its result under the reserved
\* name and returned the one summary line
RecordStored(n, before, after, out) ==
    /\ DOMAIN after = DOMAIN before \cup {<<Cent>>}
    /\ after[<<Cent>>].kind = "dict"
    /\ after[<<Cent>>].rec[3] = n
    /\ after[<<Cent>>].rec[1] + after[<<Cent>>].rec[2] = n
    /\ after[<<Cent>>].rec[1] >= 0
    /\ after[<<Cent>>].rec[2] >= 0
    /\ \A k \in DOMAIN before \ {<<Cent>>} : after[k] = before[k]
    /\ Len(out) = 1
    /\ out[1].head = HeadRecord
    /\ out[1].num = n
    /\ out[1].val = after[<<Cent>>].rec[1]

\* all of the state but the variable map
besides == <<pools, currency, inventory, pity_counter, total_spent>>

\* C19 as stated: a record-block line with the suffix of n trials, for any
\* n >= 0, stores under the reserved name a result with success + failure =
\* total = n and returns one summary line; a record-block line without the
\* suffix returns one usage line and changes no state; neither changes a
\* pool, the currency, the inventory, the pity counter or the total spent.
C19_RecordBlock ==
    [][tr'.rule = "record"
         => /\ besides' = besides
            /\ IF SearchTimes(Strip(line')).found
               THEN RecordStored(Trials(line'), variables, variables', output_lines')
               ELSE /\ variables' = variables
                    /\ Len(output_lines') = 1
                    /\ output_lines'[1].head = HeadRecordUsage]_vars

\* the part of C19 that the program keeps: the same for n >= 1, while
\* n = 0 ends in the error line of a division by zero with no state changed
C19_PositiveTrials ==
    [][tr'.rule = "record"
         => /\ besides' = besides
            /\ IF ~SearchTimes(Strip(line')).found
               THEN /\ variables' = variables
                    /\ Len(output_lines') = 1
                    /\ output_lines'[1].head = HeadRecordUsage
               ELSE IF Trials(line') >= 1
               THEN RecordStored(Trials(line'), variables, variables', output_lines')
               ELSE /\ variables' = variables
                    /\ Len(output_lines') = 1
                    /\ output_lines'[1].head = HeadError]_vars

\* the items of the pool the draw statement named
ItemsOf(t) == {pools[t.pool].items[i] : i \in 1..Len(pools[t.pool].items)}

\* the statement ended on a sampled success at its first attempt made with
\* the pity counter at 120 or more, the probability being 1.0, and without
\* the fallback guarantee; a target that is not an item of the pool has left
\* no success line and the counter unreset
ForcedSuccess(t, before, out, after) ==
    /\ t.hits = 1
    /\ ~t.fallback
    /\ ~HasHead(out, {HeadGuarantee})
    /\ t.pity >= 120 => (t.current_prob = One /\ (t.pity = 120 \/ t.draws = 1))
    /\ t.pity <= IF before >= 120 THEN before + 1 ELSE 120
    /\ t.target \notin ItemsOf(t)
         => (~HasHead(out, {HeadSuccess}) /\ after = t.pity)

\* C20 as stated: an attempt made with the pity counter at 120 or more
\* cannot fail, so a draw statement for which the pity counter before it
\* plus max_pity is at least 120 never reaches the fallback guarantee and
\* always ends on a sampled success; with a target that is not an item of
\* the pool it emits no success line.
C20_AnyCap ==
    [][(DrawRan(tr') /\ pity_counter + tr'.max_pity >= 120)
         => ForcedSuccess(tr', pity_counter, output_lines', pity_counter')]_vars

\* C20 amended: the same for the draw statements with max_pity >= 1, which
\* make an attempt; a statement with max_pity 0 makes none and ends by the
\* fallback guarantee whatever the pity counter is.
C20_SomeAttempt ==
    [][/\ (DrawRan(tr') /\ tr'.max_pity >= 1 /\ pity_counter + tr'.max_pity >= 120)
          => ForcedSuccess(tr', pity_counter, output_lines', pity_counter')
       /\ (DrawRan(tr') /\ tr'.max_pity = 0)
          => (tr'.fallback /\ tr'.draws = 0 /\ HasHead(output_lines', {HeadGuarantee})
              /\ inventory' = Append(inventory, tr'.target) /\ pity_counter' = 0)]_vars

\* a statement whose target is not an item of the pool has failed every
\* attempt up to counter 119 and sampled its success at counter 120, the
\* last attempt max_pity allows, with probability 1.0
C20_Witness ==
    /\ DrawRan(tr)
    /\ tr.max_pity >= 1
    /\ tr.pity = 120
    /\ tr.draws = tr.max_pity
    /\ tr.current_prob = One
    /\ tr.total_prob = 0
    /\ tr.hits = 1
    /\ ~tr.fallback
    /\ tr.target \notin ItemsOf(tr)
    /\ pity_counter = 120
    /\ ~HasHead(output_lines, {HeadSuccess, HeadGuarantee})
=============================================================================
